---- MODULE Spec2Model ----
(***************************************************************************)
(* A model of lily, an L-system renderer: the rewriting engine             *)
(* (Rule, Rules), the symbol-to-instruction mapping (Instruction,          *)
(* Instructions), the turtle mesh builder (apply_instruction,              *)
(* generate_mesh) of src/src/system.rs and the Data pipeline of            *)
(* src/src/main.rs.                                                        *)
(*                                                                         *)
(* A Rust &str / String is a sequence of bytes holding valid UTF-8; a char *)
(* is the byte sequence of its encoding.  A usize that wrapped below zero  *)
(* is represented by the negative number v - 2^64 (the model never holds a *)
(* value between the small and the wrapped ones).                          *)
(***************************************************************************)
EXTENDS Integers, Sequences, FiniteSets, TLC

VARIABLES
    \* Rules::parse / Rules::apply; turns counts the iterations of the loop
    \* taken so far (a history of the run, not a local of the code)
    rulesText, rules, input, i, skip, output, matchedRule, rpc, build, turns,
    \* Rule::parse
    line, parsed, ppc,
    \* generate_mesh / apply_instruction; hist[k + 1] is the branch stack
    \* after k instructions (a history of the run, not a field of the code)
    instructions, ip, stack, mesh, mpc, hist,
    \* Instructions::parse / Data::instructions / Instructions::apply
    instrText, viaData, iset, symbols, spos, cmds, ipc,
    \* Data: its fields, and the locals of Data::generate_mesh; lastHandler
    \* tells whether the last handler changed a field and whether it called
    \* generate_mesh (a history of the run, not a field of the code)
    data, tree, iterEnd, iterIdx, handed, dpc, lastHandler

rulesVars ==
    <<rulesText, rules, input, i, skip, output, matchedRule, rpc, build, turns>>
parseVars == <<line, parsed, ppc>>
meshVars == <<instructions, ip, stack, mesh, mpc, hist>>

instrVars == <<instrText, viaData, iset, symbols, spos, cmds, ipc>>

dataVars == <<data, tree, iterEnd, iterIdx, handed, dpc, lastHandler>>

vars == <<rulesVars, parseVars, meshVars, instrVars, dataVars>>

\* the variables of the other components, at rest
RulesRest ==
    /\ rulesText = <<>> /\ rules = <<>> /\ input = <<>> /\ i = 0 /\ skip = 0
    /\ output = <<>> /\ matchedRule = 0 /\ rpc = "idle" /\ turns = 0
RulesIdle == RulesRest /\ build = "release"
ParseIdle == line = <<>> /\ parsed = [some |-> FALSE] /\ ppc = "idle"
MeshIdle ==
    /\ instructions = <<>> /\ ip = 0 /\ stack = <<>>
    /\ mesh = [vertices |-> <<>>, indices |-> <<>>]
    /\ mpc = "idle" /\ hist = <<>>
InstrIdle ==
    /\ instrText = <<>> /\ viaData = FALSE /\ iset = <<>> /\ symbols = <<>>
    /\ spos = 0 /\ cmds = <<>> /\ ipc = "idle"
DataIdle ==
    /\ data = <<>> /\ tree = <<>> /\ iterEnd = 0 /\ iterIdx = 0
    /\ handed = <<>>
    /\ dpc = "off"
    /\ lastHandler = [changed |-> FALSE, regenerated |-> FALSE]

-----------------------------------------------------------------------------
(* Bounds of the model *)

\* the longest input string of Rules::apply, in characters
MaxInput == 3
\* the longest rule pattern, in characters
MaxPat == 2
\* the longest line given to Rule::parse, in bytes
MaxLine == 7
\* the longest instruction sequence given to generate_mesh
MaxInstr == 5
\* the longest symbol string given to Instructions::apply, in characters
MaxSymbols == 3
\* the most lines of an instructions text given to Instructions::parse alone
MaxInstrLines == 3
\* the largest iteration count typed into Data; Data::new starts with it
\* where the program starts with "7", whose expansion of the initial rules
\* is a string of 16015 characters
MaxIterations == 2

-----------------------------------------------------------------------------
(* Strings *)

chA == <<65>>
chB == <<66>>
chEacute == <<195, 169>>
chSpace == <<32>>
chNewline == <<10>>
Arrow == <<45, 62>>

\* char::len_utf8 of the character whose encoding starts with byte b
Utf8Len(b) ==
    IF b < 128 THEN 1 ELSE IF b < 224 THEN 2 ELSE IF b < 240 THEN 3 ELSE 4

\* input[i..].chars().next(): the character at byte offset i (0-based)
CharAt(s, k) == SubSeq(s, k + 1, k + Utf8Len(s[k + 1]))

\* the byte offsets of s at which a character starts
RECURSIVE CharOffsetsFrom(_, _)
CharOffsetsFrom(s, k) ==
    IF k >= Len(s) THEN {}
    ELSE {k} \cup CharOffsetsFrom(s, k + Len(CharAt(s, k)))

CharOffsets(s) == CharOffsetsFrom(s, 0)

\* s.chars().count()
NumChars(s) == Cardinality(CharOffsets(s))

\* s[k..]: the bytes from offset k (0-based) on
From(s, k) == SubSeq(s, k + 1, Len(s))

\* str::starts_with: p is a byte prefix of s
StartsWith(s, p) == Len(p) <= Len(s) /\ SubSeq(s, 1, Len(p)) = p

RECURSIVE StrsOfLen(_, _)
StrsOfLen(alphabet, n) ==
    IF n = 0 THEN {<<>>}
    ELSE {c \o s : c \in alphabet, s \in StrsOfLen(alphabet, n - 1)}

StrsUpTo(alphabet, n) == UNION {StrsOfLen(alphabet, k) : k \in 0..n}

IsWhitespace(b) == b \in {9, 10, 11, 12, 13, 32}

RECURSIVE TrimStart(_)
TrimStart(s) ==
    IF s # <<>> /\ IsWhitespace(Head(s)) THEN TrimStart(Tail(s)) ELSE s

RECURSIVE TrimEnd(_)
TrimEnd(s) ==
    IF s # <<>> /\ IsWhitespace(s[Len(s)])
    THEN TrimEnd(SubSeq(s, 1, Len(s) - 1)) ELSE s

\* str::trim
Trim(s) == TrimEnd(TrimStart(s))

\* the offset (0-based) of the first occurrence of pat in s at or after
\* offset k, or -1
RECURSIVE Find(_, _, _)
Find(s, pat, k) ==
    IF k + Len(pat) > Len(s) THEN -1
    ELSE IF SubSeq(s, k + 1, k + Len(pat)) = pat THEN k
    ELSE Find(s, pat, k + 1)

\* str::split(pat) for a non-empty pat: the pieces between the leftmost
\* non-overlapping occurrences of pat
RECURSIVE Split(_, _)
Split(s, pat) ==
    LET at == Find(s, pat, 0) IN
    IF at = -1 THEN <<s>>
    ELSE <<SubSeq(s, 1, at)>> \o Split(From(s, at + Len(pat)), pat)

\* str::lines: the pieces between line feeds, a final empty piece dropped,
\* one trailing carriage return stripped from each
StripCr(s) ==
    IF s # <<>> /\ s[Len(s)] = 13 THEN SubSeq(s, 1, Len(s) - 1) ELSE s

Lines(s) ==
    LET parts == Split(s, chNewline)
        kept == IF parts[Len(parts)] = <<>>
                THEN SubSeq(parts, 1, Len(parts) - 1) ELSE parts
    IN [k \in 1..Len(kept) |-> StripCr(kept[k])]

-----------------------------------------------------------------------------
(* Rule, Rules *)

None == [some |-> FALSE]
Some(v) == [some |-> TRUE, val |-> v]

RuleNew(rule, replace) == [rule |-> rule, replace |-> replace]

\* The piece Rule::parse takes as the replacement, from the pieces of the
\* line split at "->"
ReplacePiece(parts) == parts[2]

\* Rule::parse
RuleParse(ln) ==
    LET parts == Split(ln, Arrow) IN
    IF Len(parts) < 2 THEN None
    ELSE Some(RuleNew(Trim(parts[1]), Trim(ReplacePiece(parts))))

\* Rules::parse
RECURSIVE RulesParseLines(_)
RulesParseLines(lines) ==
    IF lines = <<>> THEN <<>>
    ELSE LET r == RuleParse(Head(lines)) IN
         (IF r.some THEN <<r.val>> ELSE <<>>) \o RulesParseLines(Tail(lines))

RulesParse(text) == RulesParseLines(Lines(text))

\* the loop `for rule in &self.rules` of Rules::apply, from rule k on: the
\* index of the rule the loop breaks at, 0 when it runs to the end
RECURSIVE FirstMatchFrom(_, _, _)
FirstMatchFrom(rs, rest, k) ==
    IF k > Len(rs) THEN 0
    ELSE IF StartsWith(rest, rs[k].rule) THEN k
    ELSE FirstMatchFrom(rs, rest, k + 1)

\* mutant: the loop does not break, the last matching rule wins
FirstMatch_NoBreak(rs, rest) ==
    IF \E k \in 1..Len(rs) : StartsWith(rest, rs[k].rule)
    THEN CHOOSE k \in 1..Len(rs) :
            /\ StartsWith(rest, rs[k].rule)
            /\ \A j \in 1..Len(rs) : StartsWith(rest, rs[j].rule) => j <= k
    ELSE 0

FirstMatch(rs, rest) == FirstMatchFrom(rs, rest, 1)

\* usize subtraction a - b overflows (a wrapped value is huge)
SubOverflows(a, b) == a >= 0 /\ b > a

\* mutant: skip counts the characters left of the pattern, not its bytes
SkipAfterMatch_Chars(pattern, c) == NumChars(pattern) - 1

\* mutant: the whole pattern is skipped after the current character
SkipAfterMatch_Whole(pattern, c) == Len(pattern)

\* skip = rule.rule.len() - c.len_utf8()
SkipAfterMatch(pattern, c) == Len(pattern) - Len(c)

\* mutant: the unmatched character is not copied
PushChar_Dropped(out, c) == out

\* output.push(c), line 97
PushChar(out, c) == out \o c

\* mutant: the cursor moves past the whole matched pattern at once
Advance_Pattern(k, c, pattern) ==
    k + (IF Len(pattern) > Len(c) THEN Len(pattern) ELSE Len(c))

\* i += c.len_utf8(), lines 81 and 100; pattern is the pattern matched in
\* this iteration (empty when none was), which the code does not read here
Advance(k, c, pattern) == k + Len(c)

\* One iteration of the loop of Rules::apply (lines 75-100) from the loop
\* state st = [i, skip, output, matched, panicked] on input s.  A
\* subtraction that overflows panics in a build with overflow checks
\* ("debug") and wraps in one without ("release").
ScanStep(rs, s, st, bld) ==
    LET c == CharAt(s, st.i) IN
    IF st.skip # 0
    THEN IF SubOverflows(st.skip, Len(c)) /\ bld = "debug"
         THEN [st EXCEPT !.panicked = TRUE]
         ELSE [st EXCEPT !.skip = @ - Len(c), !.i = Advance(@, c, <<>>)]
    ELSE LET k == FirstMatch(rs, From(s, st.i)) IN
         IF k # 0
         THEN IF SubOverflows(Len(rs[k].rule), Len(c)) /\ bld = "debug"
              THEN [st EXCEPT !.output = @ \o rs[k].replace, !.matched = k,
                              !.panicked = TRUE]
              ELSE [st EXCEPT !.output = @ \o rs[k].replace, !.matched = k,
                              !.skip = SkipAfterMatch(rs[k].rule, c),
                              !.i = Advance(@, c, rs[k].rule)]
         ELSE [st EXCEPT !.output = PushChar(@, c), !.matched = 0,
                         !.i = Advance(@, c, <<>>)]

\* one turn of `while i < input.len()`, nothing once the loop has ended or
\* panicked
ScanTurn(rs, s, st, bld) ==
    IF st.panicked \/ st.i >= Len(s) THEN st ELSE ScanStep(rs, s, st, bld)

\* count turns of the loop.  They are evaluated in two halves, the state
\* after the first half bound before the second starts, so that the
\* evaluation of a long input stays shallow.
RECURSIVE ScanTurns(_, _, _, _, _)
ScanTurns(rs, s, st, count, bld) ==
    IF count = 0 THEN st
    ELSE IF count = 1 THEN ScanTurn(rs, s, st, bld)
    ELSE CHOOSE after \in
            {ScanTurns(rs, s, half, count - count \div 2, bld) :
                half \in {ScanTurns(rs, s, st, count \div 2, bld)}} : TRUE

\* Rules::apply: the loop state when the loop ends or panics.  Every turn
\* advances i by at least one byte, so the loop takes at most Len(s) turns.
RulesApply(rs, s, bld) ==
    ScanTurns(rs, s, [i |-> 0, skip |-> 0, output |-> <<>>, matched |-> 0,
                      panicked |-> FALSE], Len(s), bld)

-----------------------------------------------------------------------------
(* Rules::apply as a state machine: one action per iteration of the loop *)

PatChars == {chA, chEacute}
InputChars == {chA, chEacute, chB}
Replacements == {<<>>, chB, chEacute \o chA}

RuleLineSet ==
    {p \o chSpace \o Arrow \o chSpace \o r :
        p \in StrsUpTo(PatChars, MaxPat), r \in Replacements}

\* rules texts of at most two lines
RulesTexts ==
    {<<>>} \cup RuleLineSet
    \cup {a \o chNewline \o b : a \in RuleLineSet, b \in RuleLineSet}

InitRules ==
    /\ rulesText \in RulesTexts
    /\ rules = RulesParse(rulesText)
    /\ input \in StrsUpTo(InputChars, MaxInput)
    /\ build \in {"debug", "release"}
    /\ i = 0
    /\ skip = 0
    /\ output = <<>>
    /\ matchedRule = 0
    /\ rpc = "scan"
    /\ turns = 0
    /\ ParseIdle /\ MeshIdle /\ InstrIdle /\ DataIdle

Cursor == [i |-> i, skip |-> skip, output |-> output, matched |-> matchedRule,
           panicked |-> rpc = "panicked"]

\* the loop state after the iteration st is taken to
Scanned(st) ==
    /\ i' = st.i
    /\ skip' = st.skip
    /\ output' = st.output
    /\ matchedRule' = st.matched
    /\ rpc' = IF st.panicked THEN "panicked" ELSE rpc
    /\ turns' = turns + 1
    /\ UNCHANGED <<rulesText, rules, input, build>>
    /\ UNCHANGED <<parseVars, meshVars, instrVars, dataVars>>

\* lines 79-83: a character of a matched span is consumed
ScanSkip ==
    /\ rpc = "scan" /\ i < Len(input) /\ skip # 0
    /\ Scanned(ScanStep(rules, input, Cursor, build))

\* lines 85-94, 100: some rule matches
ScanMatch ==
    /\ rpc = "scan" /\ i < Len(input) /\ skip = 0
    /\ FirstMatch(rules, From(input, i)) # 0
    /\ Scanned(ScanStep(rules, input, Cursor, build))

\* lines 85-100: no rule matches, the character is copied
ScanCopy ==
    /\ rpc = "scan" /\ i < Len(input) /\ skip = 0
    /\ FirstMatch(rules, From(input, i)) = 0
    /\ Scanned(ScanStep(rules, input, Cursor, build))

\* lines 74, 103: the loop ends and output is returned
ScanEnd ==
    /\ rpc = "scan" /\ i >= Len(input)
    /\ rpc' = "done"
    /\ UNCHANGED <<rulesText, rules, input, i, skip, output, matchedRule, build,
                   turns>>
    /\ UNCHANGED <<parseVars, meshVars, instrVars, dataVars>>

NextRules == ScanSkip \/ ScanMatch \/ ScanCopy \/ ScanEnd

SpecRules == InitRules /\ [][NextRules]_vars

-----------------------------------------------------------------------------
(* Rules::apply: properties *)

NonEmptyPatterns == \A k \in 1..Len(rules) : rules[k].rule # <<>>

\* the rules whose pattern is a literal prefix of s
Matching(rs, s) == {k \in 1..Len(rs) : StartsWith(s, rs[k].rule)}

Lowest(S) == CHOOSE k \in S : \A j \in S : k <= j

\* C3: Rules::parse followed by Rules::apply never aborts, and the counter
\* skip never leaves the non-negative range (no subtraction wraps).
C3_NoAbortSkipInRange == rpc # "panicked" /\ skip >= 0

\* C4: at every position that is not skipped, the text appended to the
\* output is the replacement of the lowest-index rule whose pattern is a
\* prefix of the remaining input (the character itself when there is none).
C4_FirstRuleWins ==
    [][(rpc = "scan" /\ i < Len(input) /\ skip = 0) =>
          LET M == Matching(rules, From(input, i)) IN
          IF M = {} THEN output' = output \o CharAt(input, i)
          ELSE /\ output' = output \o rules[Lowest(M)].replace
               /\ matchedRule' = Lowest(M)]_vars

\* the first of two rules with the same pattern and different replacements
\* has been applied at the start of the input
C4_Witness ==
    /\ Len(rules) = 2
    /\ rules[1].rule = rules[2].rule
    /\ rules[1].rule # <<>>
    /\ rules[1].replace # rules[2].replace
    /\ matchedRule = 1
    /\ i = Len(CharAt(input, 0))
    /\ output = rules[1].replace

\* the reference rewriting R
RECURSIVE RefRewrite(_, _)
RefRewrite(rs, s) ==
    IF s = <<>> THEN <<>>
    ELSE LET M == Matching(rs, s) IN
         IF M # {}
         THEN rs[Lowest(M)].replace
              \o RefRewrite(rs, From(s, Len(rs[Lowest(M)].rule)))
         ELSE CharAt(s, 0) \o RefRewrite(rs, From(s, Len(CharAt(s, 0))))

\* C5: with non-empty patterns the cursor/skip loop returns the string the
\* reference rewriting R gives.
C5_ApplyIsReference ==
    (rpc = "done" /\ NonEmptyPatterns) => output = RefRewrite(rules, input)

\* a two-character, three-byte pattern matched after a copied character
C5_Witness ==
    /\ rpc = "done"
    /\ Len(rules) = 1
    /\ rules[1] = RuleNew(chEacute \o chA, chB)
    /\ input = chA \o chEacute \o chA
    /\ output = chA \o chB

\* no rule's pattern is a prefix of s at any character position
NoMatchAnywhere(rs, s) ==
    \A k \in CharOffsets(s) : Matching(rs, From(s, k)) = {}

\* C11: when no rule's pattern is a prefix of the input at any character
\* position (so also when there is no rule), Rules::apply returns the input
\* unchanged.
C11_NoMatchIsIdentity ==
    (rpc = "done" /\ NoMatchAnywhere(rules, input)) => output = input

\* a three-character input with a two-byte character has been scanned
\* against two rules, neither of which matches anywhere
C11_Witness ==
    /\ rpc = "done"
    /\ Len(rules) = 2
    /\ NoMatchAnywhere(rules, input)
    /\ input = chB \o chEacute \o chB
    /\ output = input

\* rules texts of at most two lines whose replacement holds both pattern
\* characters, so that a scan that read the output back would find a match
\* in it
LiveRuleLineSet ==
    {p \o chSpace \o Arrow \o chSpace \o chEacute \o chA :
        p \in StrsUpTo(PatChars, MaxPat)}

LiveRulesTexts ==
    {<<>>} \cup LiveRuleLineSet
    \cup {a \o chNewline \o b : a \in LiveRuleLineSet, b \in LiveRuleLineSet}

InitRulesLive ==
    /\ rulesText \in LiveRulesTexts
    /\ rules = RulesParse(rulesText)
    /\ input \in StrsUpTo(InputChars, MaxInput)
    /\ build \in {"debug", "release"}
    /\ i = 0
    /\ skip = 0
    /\ output = <<>>
    /\ matchedRule = 0
    /\ rpc = "scan"
    /\ turns = 0
    /\ ParseIdle /\ MeshIdle /\ InstrIdle /\ DataIdle

\* Rules::apply runs on: the thread in the loop takes its next iteration
SpecRulesLive == InitRulesLive /\ [][NextRules]_vars /\ WF_vars(NextRules)

\* C16: with non-empty patterns every iteration of the scan loop (match,
\* copy or skip) moves the cursor forward by exactly the byte length of the
\* current character and appends to the output without reading it back (a
\* match is decided on the input at the cursor alone); the loop has taken
\* one iteration per character of the input when it ends, and it ends.
C16_ScanTerminates ==
    /\ [][(rpc = "scan" /\ i < Len(input) /\ NonEmptyPatterns) =>
            /\ i' = i + Len(CharAt(input, i))
            /\ i' > i
            /\ turns' = turns + 1
            /\ rpc' = "scan"
            /\ input' = input
            /\ LET k == FirstMatch(rules, From(input, i)) IN
               output' = IF skip # 0 THEN output
                         ELSE IF k # 0 THEN output \o rules[k].replace
                         ELSE output \o CharAt(input, i)]_vars
    /\ []((rpc = "done" /\ NonEmptyPatterns) =>
            (turns = NumChars(input) /\ i = Len(input)))
    /\ (NonEmptyPatterns ~> rpc = "done")

\* a rule whose replacement holds its own pattern has been applied twice in
\* a three-character input, in three iterations
C16_Witness ==
    /\ rpc = "done"
    /\ rules = <<RuleNew(chA, chEacute \o chA)>>
    /\ input = chA \o chEacute \o chA
    /\ output = chEacute \o chA \o chEacute \o chEacute \o chA
    /\ turns = 3
    /\ i = 4

\* C17: with non-empty patterns, skip is never negative; while it is
\* positive it is the number of bytes left of the span the last matched
\* pattern occupies in the input, the current character lies within that
\* span (its byte length is at most skip), so skip reaches exactly 0 at the
\* end of the span; and skip is 0 when the scan ends.
C17_SkipLandsOnZero ==
    (rpc \in {"scan", "done", "panicked"} /\ NonEmptyPatterns) =>
        /\ rpc # "panicked"
        /\ skip >= 0
        /\ skip > 0 =>
              /\ matchedRule # 0
              /\ LET pattern == rules[matchedRule].rule
                     start == i + skip - Len(pattern)
                 IN /\ start >= 0 /\ skip < Len(pattern)
                    /\ i + skip <= Len(input)
                    /\ SubSeq(input, start + 1, i + skip) = pattern
              /\ i < Len(input)
              /\ Len(CharAt(input, i)) <= skip
        /\ rpc = "done" => skip = 0

\* a one-byte character has matched a three-byte pattern and the two-byte
\* character left of the span is the next to be skipped
C17_Witness ==
    /\ rpc = "scan"
    /\ NonEmptyPatterns
    /\ matchedRule # 0
    /\ rules[matchedRule].rule = chA \o chEacute
    /\ i = 1
    /\ skip = 2
    /\ CharAt(input, i) = chEacute

-----------------------------------------------------------------------------
(* Rule::parse on every short line *)

chDash == <<45>>
chGreater == <<62>>
LineChars == {chA, chSpace, chDash, chGreater}

InitParse ==
    /\ line \in StrsUpTo(LineChars, MaxLine)
    /\ parsed = None
    /\ ppc = "pending"
    /\ RulesIdle /\ MeshIdle /\ InstrIdle /\ DataIdle

ParseLine ==
    /\ ppc = "pending"
    /\ parsed' = RuleParse(line)
    /\ ppc' = "done"
    /\ UNCHANGED <<line, rulesVars, meshVars, instrVars, dataVars>>

NextParse == ParseLine

SpecParse == InitParse /\ [][NextParse]_vars

\* C7: Rule::parse splits at the first "->" only: the pattern is the trimmed
\* text before it, the replacement the trimmed text of everything after it;
\* a line with no "->" gives no rule.
C7_SplitAtFirstArrow ==
    ppc = "done" =>
        LET at == Find(line, Arrow, 0) IN
        IF at = -1 THEN parsed = None
        ELSE parsed = Some(RuleNew(Trim(SubSeq(line, 1, at)),
                                   Trim(From(line, at + Len(Arrow)))))

-----------------------------------------------------------------------------
(* Instruction, Branch, apply_instruction, generate_mesh *)

Forward(length) == [op |-> "Forward", arg |-> length]
Turn(angle) == [op |-> "Turn", arg |-> angle]
Scale(factor) == [op |-> "Scale", arg |-> factor]
Push == [op |-> "Push"]
Pop == [op |-> "Pop"]

Branch(indecies, position, rotation, scale) ==
    [indecies |-> indecies, position |-> position, rotation |-> rotation,
     scale |-> scale]

\* Matrix * Vector for a rotation by a multiple of 90 degrees
Rotate(deg, v) ==
    CASE deg = 0 -> v
      [] deg = 90 -> <<-v[2], v[1]>>
      [] deg = 180 -> <<-v[1], -v[2]>>
      [] deg = 270 -> <<v[2], -v[1]>>

Top(st) == st[Len(st)]
SetTop(st, b) == [st EXCEPT ![Len(st)] = b]

\* A vertex at branch.position + sign * left, where
\* left = rotation * NEG_X * (branch_width * 0.9^depth) / 2, kept symbolic
Vertex(position, rotation, depth, sign) ==
    [position |-> position, rotation |-> rotation, depth |-> depth,
     sign |-> sign]

\* mutant: the branches of the stack share one position
ForwardStack_Shared(st, length) ==
    LET branch == Top(st)
        forward == Rotate(branch.rotation, <<0, -(length * branch.scale)>>)
    IN [k \in 1..Len(st) |->
          [st[k] EXCEPT !.position = <<branch.position[1] + forward[1],
                                       branch.position[2] + forward[2]>>]]

\* Instruction::Forward, lines 233-241 and 264: branch.position += forward
ForwardStack(st, length) ==
    LET branch == Top(st)
        forward == Rotate(branch.rotation, <<0, -(length * branch.scale)>>)
    IN SetTop(st, [branch EXCEPT !.position =
                      <<branch.position[1] + forward[1],
                        branch.position[2] + forward[2]>>])

\* mutant: the trailing edge of the branch is left where it was
ForwardEdge_Kept(st, index) == st

\* Instruction::Forward, line 263: branch.indecies = [index, index + 1]
ForwardEdge(st, index) ==
    SetTop(st, [Top(st) EXCEPT !.indecies = <<index, index + 1>>])

\* mutant: the depth counts the branches below the top one
Depth_BelowTop(st) == Len(st) - 1

\* let depth = stack.len(), line 226
Depth(st) == Len(st)

\* mutant: the index is read after the two vertices are pushed
NextIndex_AfterPush(m) == Len(m.vertices) + 2

\* let index = mesh.vertices.len() as u32, line 243
NextIndex(m) == Len(m.vertices)

\* Instruction::Forward, lines 243-263: the vertices and indices pushed
ForwardMesh(m, st) ==
    LET branch == Top(st)
        depth == Depth(st)
        index == NextIndex(m)
    IN [vertices |-> m.vertices
            \o <<Vertex(branch.position, branch.rotation, depth, 1),
                 Vertex(branch.position, branch.rotation, depth, -1)>>,
        indices |-> m.indices
            \o <<branch.indecies[1], branch.indecies[2], index,
                 branch.indecies[2], index, index + 1>>]

\* Instruction::Turn
TurnStack(st, angle) ==
    SetTop(st, [Top(st) EXCEPT !.rotation = (@ + angle) % 360])

\* Instruction::Scale
ScaleStack(st, factor) ==
    SetTop(st, [Top(st) EXCEPT !.scale = @ * factor])

\* Instruction::Push
PushStack(st) == Append(st, Top(st))

\* Instruction::Pop
PopStack(st) == SubSeq(st, 1, Len(st) - 1)

\* mutant: a Push on the empty stack starts a new root branch
OnEmpty_PushRoot(m, st, instruction) ==
    IF instruction.op = "Push"
    THEN [mesh |-> m, stack |-> <<Branch(<<0, 1>>, <<0, 0>>, 0, 1)>>]
    ELSE [mesh |-> m, stack |-> st]

\* lines 228-230: stack.last_mut() is None, the function returns
OnEmpty(m, st, instruction) == [mesh |-> m, stack |-> st]

\* apply_instruction: the mesh and the stack it leaves
ApplyInstruction(m, st, instruction) ==
    IF st = <<>> THEN OnEmpty(m, st, instruction)
    ELSE CASE instruction.op = "Forward" ->
                [mesh |-> ForwardMesh(m, st),
                 stack |-> ForwardEdge(ForwardStack(st, instruction.arg),
                                       NextIndex(m))]
           [] instruction.op = "Turn" ->
                [mesh |-> m, stack |-> TurnStack(st, instruction.arg)]
           [] instruction.op = "Scale" ->
                [mesh |-> m, stack |-> ScaleStack(st, instruction.arg)]
           [] instruction.op = "Push" -> [mesh |-> m, stack |-> PushStack(st)]
           [] instruction.op = "Pop" -> [mesh |-> m, stack |-> PopStack(st)]

\* Mesh::new with the two seed vertices, lines 284-297
SeedMesh ==
    [vertices |-> <<Vertex(<<0, 0>>, 0, 0, 1), Vertex(<<0, 0>>, 0, 0, -1)>>,
     indices |-> <<>>]

\* the root branch, lines 299-304
RootStack == <<Branch(<<0, 1>>, <<0, 0>>, 0, 1)>>

\* generate_mesh, lines 306-308: the instructions lo..hi applied in order
\* to ms = [mesh, stack].  They are evaluated in two halves, the state after
\* the first half bound before the second starts, so that the evaluation of
\* a long sequence stays shallow.
RECURSIVE GenerateRange(_, _, _, _)
GenerateRange(ms, instrs, lo, hi) ==
    IF lo > hi THEN ms
    ELSE IF lo = hi THEN ApplyInstruction(ms.mesh, ms.stack, instrs[lo])
    ELSE CHOOSE after \in
            {GenerateRange(half, instrs, (lo + hi) \div 2 + 1, hi) :
                half \in {GenerateRange(ms, instrs, lo, (lo + hi) \div 2)}} :
            TRUE

\* generate_mesh
GenerateMesh(instrs) ==
    GenerateRange([mesh |-> SeedMesh, stack |-> RootStack], instrs, 1,
                  Len(instrs)).mesh

InstrSet == {Forward(1), Turn(90), Scale(2), Push, Pop}

RECURSIVE SeqsOfLen(_, _)
SeqsOfLen(S, n) ==
    IF n = 0 THEN {<<>>}
    ELSE {<<x>> \o s : x \in S, s \in SeqsOfLen(S, n - 1)}

SeqsUpTo(S, n) == UNION {SeqsOfLen(S, k) : k \in 0..n}

\* generate_mesh, lines 284-304
InitMesh ==
    /\ instructions \in SeqsUpTo(InstrSet, MaxInstr)
    /\ ip = 0
    /\ mesh = SeedMesh
    /\ stack = RootStack
    /\ hist = <<stack>>
    /\ mpc = "run"
    /\ RulesIdle /\ ParseIdle /\ InstrIdle /\ DataIdle

\* one instruction is taken from the slice and applied (line 307)
Step(op) ==
    /\ mpc = "run" /\ ip < Len(instructions)
    /\ instructions[ip + 1].op = op
    /\ LET r == ApplyInstruction(mesh, stack, instructions[ip + 1]) IN
       /\ mesh' = r.mesh
       /\ stack' = r.stack
       /\ hist' = Append(hist, r.stack)
    /\ ip' = ip + 1
    /\ UNCHANGED <<instructions, mpc>>
    /\ UNCHANGED <<rulesVars, parseVars, instrVars, dataVars>>

\* lines 228-230: no branch on the stack
StepNoBranch ==
    /\ stack = <<>>
    /\ \E op \in {"Forward", "Turn", "Scale", "Push", "Pop"} : Step(op)

StepForward == stack # <<>> /\ Step("Forward")

StepTurn == stack # <<>> /\ Step("Turn")

StepScale == stack # <<>> /\ Step("Scale")

StepPush == stack # <<>> /\ Step("Push")

StepPop == stack # <<>> /\ Step("Pop")

\* line 310: the mesh is returned
MeshDone ==
    /\ mpc = "run" /\ ip = Len(instructions)
    /\ mpc' = "done"
    /\ UNCHANGED <<instructions, ip, stack, mesh, hist>>
    /\ UNCHANGED <<rulesVars, parseVars, instrVars, dataVars>>

NextMesh ==
    \/ StepNoBranch \/ StepForward \/ StepTurn \/ StepScale
    \/ StepPush \/ StepPop \/ MeshDone

SpecMesh == InitMesh /\ [][NextMesh]_vars

RECURSIVE Count(_, _)
Count(seq, op) ==
    IF seq = <<>> THEN 0
    ELSE (IF Head(seq).op = op THEN 1 ELSE 0) + Count(Tail(seq), op)

\* the instructions processed so far
Processed == SubSeq(instructions, 1, ip)

\* C1: the branch stack holds at least one element after every instruction,
\* and a Pop processed on the root alone leaves the stack unchanged.
C1_RootNeverDiscarded ==
    mpc # "idle" =>
        /\ Len(stack) >= 1
        /\ \A k \in 1..ip :
              (instructions[k].op = "Pop" /\ Len(hist[k]) = 1)
                  => hist[k + 1] = hist[k]

\* C2: every Forward processed adds exactly 2 vertices and 6 indices, so
\* after k Forwards the mesh has 2 + 2k vertices and 6k indices.
C2_ForwardAddsQuad ==
    mpc # "idle" =>
        /\ Len(mesh.vertices) = 2 + 2 * Count(Processed, "Forward")
        /\ Len(mesh.indices) = 6 * Count(Processed, "Forward")

\* pushes and pops properly nested
RECURSIVE Nested(_, _)
Nested(seq, depth) ==
    IF seq = <<>> THEN depth = 0
    ELSE IF Head(seq).op = "Push" THEN Nested(Tail(seq), depth + 1)
    ELSE IF Head(seq).op = "Pop"
         THEN depth > 0 /\ Nested(Tail(seq), depth - 1)
    ELSE Nested(Tail(seq), depth)

Balanced(seq) == Nested(seq, 0)

\* C6: every instruction leaves the branches below the top as they were,
\* and from a non-empty stack a Push, a balanced sequence and a Pop leave
\* the top branch as it was before the Push.
C6_PushPopRestoresTop ==
    mpc # "idle" =>
        /\ \A k \in 1..ip : \A j \in 1..(Len(hist[k]) - 1) :
              j <= Len(hist[k + 1]) /\ hist[k + 1][j] = hist[k][j]
        /\ \A a \in 1..ip : \A b \in (a + 1)..ip :
              (/\ instructions[a].op = "Push"
               /\ instructions[b].op = "Pop"
               /\ Balanced(SubSeq(instructions, a + 1, b - 1))
               /\ hist[a] # <<>>)
              => (hist[b + 1] # <<>> /\ Top(hist[b + 1]) = Top(hist[a]))

\* a Push, a Forward that moved the pushed branch, and the Pop
C6_Witness ==
    /\ mpc = "run" /\ ip >= 3
    /\ instructions[ip - 2].op = "Push"
    /\ instructions[ip - 1].op = "Forward"
    /\ instructions[ip].op = "Pop"
    /\ hist[ip - 2] # <<>>
    /\ Top(hist[ip]) # Top(hist[ip - 2])
    /\ Top(stack) = Top(hist[ip - 2])

IsPrefix(a, b) == Len(a) <= Len(b) /\ SubSeq(b, 1, Len(a)) = a

\* the vertex indices assigned so far: those of the vertices of the mesh,
\* those written to mesh.indices and the trailing edges every branch has had
EarlierIndices ==
    (0..(Len(mesh.vertices) - 1))
    \cup {mesh.indices[k] : k \in 1..Len(mesh.indices)}
    \cup UNION {UNION {{hist[k][j].indecies[1], hist[k][j].indecies[2]} :
                          j \in 1..Len(hist[k])} : k \in 1..Len(hist)}

\* C12: every instruction leaves the vertices and indices already written
\* unchanged and in place (the mesh only grows at its end), and the two
\* indices a Forward gives the trailing edge of the branch are greater than
\* every vertex index assigned earlier in the run.
C12_MeshAppendOnly ==
    [][mpc = "run" =>
          /\ IsPrefix(mesh.vertices, mesh'.vertices)
          /\ IsPrefix(mesh.indices, mesh'.indices)
          /\ (ip < Len(instructions) /\ stack # <<>>
                /\ instructions[ip + 1].op = "Forward") =>
                \A e \in 1..2 : \A v \in EarlierIndices :
                    Top(stack').indecies[e] > v]_vars

\* a second Forward, on a pushed branch, has moved the trailing edge of
\* that branch to the fifth and sixth vertex
C12_Witness ==
    /\ mpc = "run" /\ ip = 3
    /\ Processed = <<Forward(1), Push, Forward(1)>>
    /\ Len(mesh.vertices) = 6
    /\ Len(mesh.indices) = 12
    /\ Top(stack).indecies = <<4, 5>>
    /\ stack[1].indecies = <<2, 3>>

\* C14: at every point of generate_mesh every value of mesh.indices and
\* both trailing-edge indices of every branch on the stack are smaller than
\* the number of vertices, and the number of indices is a multiple of 3.
C14_IndicesInRange ==
    mpc # "idle" =>
        /\ \A k \in 1..Len(mesh.indices) :
              mesh.indices[k] >= 0 /\ mesh.indices[k] < Len(mesh.vertices)
        /\ \A j \in 1..Len(stack) : \A e \in 1..2 :
              stack[j].indecies[e] >= 0
              /\ stack[j].indecies[e] < Len(mesh.vertices)
        /\ Len(mesh.indices) % 3 = 0

\* two Forwards at two levels of the stack: four triangles, and a branch
\* below the top whose trailing edge is older than the newest vertices
C14_Witness ==
    /\ mpc = "run" /\ ip = 4
    /\ Processed = <<Push, Forward(1), Push, Forward(1)>>
    /\ Len(stack) = 3
    /\ stack[1].indecies = <<0, 1>>
    /\ stack[2].indecies = <<2, 3>>
    /\ stack[3].indecies = <<4, 5>>
    /\ mesh.indices = <<0, 1, 2, 1, 2, 3, 2, 3, 4, 3, 4, 5>>

\* C15: an instruction processed while the stack is empty changes neither
\* the stack nor the mesh, whatever its kind; so the stack, once empty,
\* stays empty and the mesh stays as it is to the end of the sequence.
C15_EmptyStackNoOp ==
    [][(mpc = "run" /\ stack = <<>>) => (stack' = <<>> /\ mesh' = mesh)]_vars

\* a Pop has emptied the stack, and a Push and a Forward have been
\* processed since
C15_Witness ==
    /\ mpc = "run" /\ ip = 4
    /\ Processed = <<Forward(1), Pop, Push, Forward(1)>>
    /\ hist[3] = <<>>
    /\ stack = <<>>
    /\ Len(mesh.vertices) = 4

\* C18: a Forward that draws (the stack is not empty) gives its two
\* vertices the taper exponent Len(stack), the number of branches on the
\* stack when it is processed, and that number is 1 plus the Pushes
\* processed so far less the Pops processed so far.
C18_DepthIsStackSize ==
    [][(mpc = "run" /\ ip < Len(instructions) /\ stack # <<>>
          /\ instructions[ip + 1].op = "Forward") =>
          /\ Len(mesh'.vertices) = Len(mesh.vertices) + 2
          /\ \A v \in 1..2 :
                mesh'.vertices[Len(mesh.vertices) + v].depth = Len(stack)
          /\ Len(stack) = 1 + Count(Processed, "Push")
                             - Count(Processed, "Pop")]_vars

\* segments drawn on the root, two levels up, and one level up after a Pop
C18_Witness ==
    /\ mpc = "run" /\ ip = 5
    /\ Processed = <<Forward(1), Push, Push, Forward(1), Pop>>
    /\ mesh.vertices[3].depth = 1
    /\ mesh.vertices[5].depth = 3
    /\ Len(stack) = 2

-----------------------------------------------------------------------------
(* Instruction::parse, Instructions *)

chF == <<70>>
chX == <<88>>
chOpen == <<91>>
chClose == <<93>>
chEq == <<61>>
kwForward == <<102, 111, 114, 119, 97, 114, 100>>
kwTurn == <<116, 117, 114, 110>>
kwScale == <<115, 99, 97, 108, 101>>
kwPush == <<112, 117, 115, 104>>
kwPop == <<112, 111, 112>>
kwJump == <<106, 117, 109, 112>>
txt10 == <<49, 48>>
txt90 == <<57, 48>>

\* str::split_whitespace: the maximal runs of bytes that are not whitespace
RECURSIVE SplitWhitespaceFrom(_, _)
SplitWhitespaceFrom(s, cur) ==
    IF s = <<>> THEN (IF cur = <<>> THEN <<>> ELSE <<cur>>)
    ELSE IF IsWhitespace(Head(s))
         THEN (IF cur = <<>> THEN <<>> ELSE <<cur>>)
              \o SplitWhitespaceFrom(Tail(s), <<>>)
    ELSE SplitWhitespaceFrom(Tail(s), Append(cur, Head(s)))

SplitWhitespace(s) == SplitWhitespaceFrom(s, <<>>)

IsDigit(b) == b >= 48 /\ b <= 57

RECURSIVE DecimalValue(_, _)
DecimalValue(s, acc) ==
    IF s = <<>> THEN acc ELSE DecimalValue(Tail(s), 10 * acc + (Head(s) - 48))

\* str::parse::<f32> on the tokens the model draws: a run of decimal digits
\* is that number, a token holding any other byte of the model's alphabets
\* (a letter, '=') and the empty token are errors
ParseF32(tok) ==
    IF tok # <<>> /\ \A k \in 1..Len(tok) : IsDigit(tok[k])
    THEN Some(DecimalValue(tok, 0)) ELSE None

\* parts.next()?.parse().ok()? of Instruction::parse
ParseArg(parts) == IF Len(parts) < 2 THEN None ELSE ParseF32(parts[2])

\* Instruction::parse, on the tokens that follow "="
InstructionParse(parts) ==
    IF parts = <<>> THEN None
    ELSE CASE parts[1] = kwForward ->
                (IF ParseArg(parts).some
                 THEN Some(Forward(ParseArg(parts).val)) ELSE None)
           [] parts[1] = kwTurn ->
                (IF ParseArg(parts).some
                 THEN Some(Turn(ParseArg(parts).val)) ELSE None)
           [] parts[1] = kwScale ->
                (IF ParseArg(parts).some
                 THEN Some(Scale(ParseArg(parts).val)) ELSE None)
           [] parts[1] = kwPush -> Some(Push)
           [] parts[1] = kwPop -> Some(Pop)
           [] OTHER -> None

\* Instructions::parse_instruction
ParseInstruction(ln) ==
    LET parts == SplitWhitespace(ln) IN
    IF Len(parts) < 2 THEN None
    ELSE IF parts[2] # chEq THEN None
    ELSE LET instruction == InstructionParse(SubSeq(parts, 3, Len(parts))) IN
         IF instruction.some
         THEN Some([key |-> CharAt(parts[1], 0), instruction |-> instruction.val])
         ELSE None

\* Instructions::new: the empty HashMap
InstructionsNew == <<>>

\* mutant: a symbol already bound keeps its instruction
Insert_KeepFirst(m, c, instruction) ==
    [k \in DOMAIN m \cup {c} |-> IF k \in DOMAIN m THEN m[k] ELSE instruction]

\* Instructions::insert (HashMap::insert)
Insert(m, c, instruction) ==
    [k \in DOMAIN m \cup {c} |-> IF k = c THEN instruction ELSE m[k]]

\* Instructions::parse
RECURSIVE InstructionsParseLines(_, _)
InstructionsParseLines(lines, m) ==
    IF lines = <<>> THEN m
    ELSE LET p == ParseInstruction(Head(lines)) IN
         InstructionsParseLines(Tail(lines),
            IF p.some THEN Insert(m, p.val.key, p.val.instruction) ELSE m)

InstructionsParse(text) == InstructionsParseLines(Lines(text), InstructionsNew)

\* mutant: the reserved symbols are bound before the user's lines are read
DataInstructions_UserWins(text) ==
    InstructionsParseLines(Lines(text),
        Insert(Insert(InstructionsNew, chOpen, Push), chClose, Pop))

\* Data::instructions
DataInstructions(text) ==
    Insert(Insert(InstructionsParse(text), chOpen, Push), chClose, Pop)

\* self.instructions.get(&c)
Get(m, c) == IF c \in DOMAIN m THEN Some(m[c]) ELSE None

\* mutant: the instruction is put in front of the output
Emit_Front(m, c, out) ==
    IF Get(m, c).some THEN <<Get(m, c).val>> \o out ELSE out

\* the body of the loop of Instructions::apply
Emit(m, c, out) ==
    IF Get(m, c).some THEN Append(out, Get(m, c).val) ELSE out

\* one turn of `for c in input.chars()` from st = [pos, out], nothing once
\* the characters are used up
ApplyTurn(m, s, st) ==
    IF st.pos >= Len(s) THEN st
    ELSE [pos |-> st.pos + Len(CharAt(s, st.pos)),
          out |-> Emit(m, CharAt(s, st.pos), st.out)]

\* count turns of the loop.  They are evaluated in two halves, the state
\* after the first half bound before the second starts, so that the
\* evaluation of a long string stays shallow.
RECURSIVE ApplyTurns(_, _, _, _)
ApplyTurns(m, s, st, count) ==
    IF count = 0 THEN st
    ELSE IF count = 1 THEN ApplyTurn(m, s, st)
    ELSE CHOOSE after \in
            {ApplyTurns(m, s, half, count - count \div 2) :
                half \in {ApplyTurns(m, s, st, count \div 2)}} : TRUE

\* Instructions::apply: a string has at most Len(s) characters
InstructionsApply(m, s) ==
    ApplyTurns(m, s, [pos |-> 0, out |-> <<>>], Len(s)).out

-----------------------------------------------------------------------------
(* Instructions::apply as a state machine: one action per character *)

InstrKeys == {chF, chOpen, chClose}
InstrCommands ==
    {kwForward \o chSpace \o txt10, kwTurn \o chSpace \o txt90, kwPush, kwPop,
     kwForward \o chSpace \o chX, kwForward, kwJump}

InstrLineSet ==
    {k \o chSpace \o chEq \o chSpace \o c : k \in InstrKeys, c \in InstrCommands}
    \cup {chF \o chSpace \o kwPush, chF \o chSpace \o chEq, <<>>}

\* instructions texts of at most two lines
InstrTexts ==
    InstrLineSet
    \cup {a \o chNewline \o b : a \in InstrLineSet, b \in InstrLineSet}

SymbolChars == {chF, chOpen, chClose, chEacute}

InitInstr ==
    /\ instrText \in InstrTexts
    /\ viaData \in BOOLEAN
    /\ iset = IF viaData THEN DataInstructions(instrText)
              ELSE InstructionsParse(instrText)
    /\ symbols \in StrsUpTo(SymbolChars, MaxSymbols)
    /\ spos = 0
    /\ cmds = <<>>
    /\ ipc = "apply"
    /\ RulesIdle /\ ParseIdle /\ MeshIdle /\ DataIdle

\* lines 197-200: a character with a mapping
ApplyMapped ==
    /\ ipc = "apply" /\ spos < Len(symbols)
    /\ Get(iset, CharAt(symbols, spos)).some
    /\ LET st == ApplyTurn(iset, symbols, [pos |-> spos, out |-> cmds]) IN
       cmds' = st.out /\ spos' = st.pos
    /\ UNCHANGED <<instrText, viaData, iset, symbols, ipc>>
    /\ UNCHANGED <<rulesVars, parseVars, meshVars, dataVars>>

\* lines 197-198: a character with no mapping
ApplyUnmapped ==
    /\ ipc = "apply" /\ spos < Len(symbols)
    /\ ~Get(iset, CharAt(symbols, spos)).some
    /\ LET st == ApplyTurn(iset, symbols, [pos |-> spos, out |-> cmds]) IN
       cmds' = st.out /\ spos' = st.pos
    /\ UNCHANGED <<instrText, viaData, iset, symbols, ipc>>
    /\ UNCHANGED <<rulesVars, parseVars, meshVars, dataVars>>

\* line 203
ApplyReturn ==
    /\ ipc = "apply" /\ spos >= Len(symbols)
    /\ ipc' = "done"
    /\ UNCHANGED <<instrText, viaData, iset, symbols, spos, cmds>>
    /\ UNCHANGED <<rulesVars, parseVars, meshVars, dataVars>>

NextInstr == ApplyMapped \/ ApplyUnmapped \/ ApplyReturn

SpecInstr == InitInstr /\ [][NextInstr]_vars

\* the characters of a string
RECURSIVE Chars(_)
Chars(s) ==
    IF s = <<>> THEN <<>>
    ELSE <<CharAt(s, 0)>> \o Chars(From(s, Len(CharAt(s, 0))))

IsMapped(c) == c \in DOMAIN iset

\* C8: Instructions::apply returns the mapped characters' instructions in
\* the order of the input, and nothing for the characters with no mapping.
C8_ApplyIsFilterMap ==
    ipc = "done" =>
        LET kept == SelectSeq(Chars(symbols), IsMapped) IN
        /\ Len(cmds) = Len(kept)
        /\ \A k \in 1..Len(kept) : cmds[k] = iset[kept[k]]

\* an unmapped character between two characters mapped to different
\* instructions
C8_Witness ==
    /\ ipc = "done"
    /\ symbols = chF \o chEacute \o chOpen
    /\ chF \in DOMAIN iset /\ chOpen \in DOMAIN iset
    /\ chEacute \notin DOMAIN iset
    /\ iset[chF] # iset[chOpen]
    /\ cmds = <<iset[chF], iset[chOpen]>>

\* C9: the instruction set Data::instructions gives maps '[' to Push and
\* ']' to Pop, whatever the instructions text binds them to.
C9_ReservedSymbols ==
    (ipc # "idle" /\ viaData) =>
        /\ Get(iset, chOpen) = Some(Push)
        /\ Get(iset, chClose) = Some(Pop)

\* the text binds '[' to forward 10 and a '[' has been turned into a Push
C9_Witness ==
    /\ viaData
    /\ instrText = chOpen \o chSpace \o chEq \o chSpace \o kwForward
                   \o chSpace \o txt10
    /\ ParseInstruction(instrText) = Some([key |-> chOpen, instruction |-> Forward(10)])
    /\ symbols = chOpen
    /\ cmds = <<Push>>

-----------------------------------------------------------------------------
(* Instructions::parse on every text of a few lines *)

RECURSIVE TextsOfLines(_, _)
TextsOfLines(S, n) ==
    IF n = 1 THEN S
    ELSE {a \o chNewline \o b : a \in S, b \in TextsOfLines(S, n - 1)}

\* well-formed lines, and lines malformed each in one way: an unknown
\* command word, an argument that is no number, no argument, no "=", no
\* command word, nothing
ParseLineSet ==
    {chF \o chSpace \o chEq \o chSpace \o c :
        c \in {kwForward \o chSpace \o txt10, kwTurn \o chSpace \o txt90,
               kwPop, kwJump, kwForward \o chSpace \o chX, kwForward}}
    \cup {chOpen \o chSpace \o chEq \o chSpace \o kwPush,
          chOpen \o chSpace \o chEq \o chSpace \o kwScale \o chSpace \o txt10,
          chF \o chSpace \o kwPush, chF \o chSpace \o chEq, <<>>}

InitInstrParse ==
    /\ instrText \in UNION {TextsOfLines(ParseLineSet, n) : n \in 1..MaxInstrLines}
    /\ viaData = FALSE
    /\ iset = InstructionsNew
    /\ symbols = <<>>
    /\ spos = 0
    /\ cmds = <<>>
    /\ ipc = "parse"
    /\ RulesIdle /\ ParseIdle /\ MeshIdle /\ DataIdle

\* Instructions::parse, lines 172-182
ParseText ==
    /\ ipc = "parse"
    /\ iset' = InstructionsParse(instrText)
    /\ ipc' = "parsed"
    /\ UNCHANGED <<instrText, viaData, symbols, spos, cmds>>
    /\ UNCHANGED <<rulesVars, parseVars, meshVars, dataVars>>

NextInstrParse == ParseText

SpecInstrParse == InitInstrParse /\ [][NextInstrParse]_vars

\* a well-formed line: a symbol, "=", and a command word, one of forward,
\* turn and scale with a numeric argument or one of push and pop
WellFormed(ln) ==
    LET t == SplitWhitespace(ln) IN
    /\ Len(t) >= 3
    /\ t[2] = chEq
    /\ \/ t[3] \in {kwPush, kwPop}
       \/ /\ t[3] \in {kwForward, kwTurn, kwScale}
          /\ Len(t) >= 4
          /\ t[4] # <<>>
          /\ \A k \in 1..Len(t[4]) : IsDigit(t[4][k])

\* the symbol a well-formed line binds and the instruction it binds it to
BoundSymbol(ln) == CharAt(SplitWhitespace(ln)[1], 0)

BoundInstruction(ln) ==
    LET t == SplitWhitespace(ln) IN
    CASE t[3] = kwPush -> Push
      [] t[3] = kwPop -> Pop
      [] t[3] = kwForward -> Forward(DecimalValue(t[4], 0))
      [] t[3] = kwTurn -> Turn(DecimalValue(t[4], 0))
      [] t[3] = kwScale -> Scale(DecimalValue(t[4], 0))

\* the lines of a text that are well-formed and bind c
Binding(lines, c) ==
    {k \in 1..Len(lines) : WellFormed(lines[k]) /\ BoundSymbol(lines[k]) = c}

Highest(S) == CHOOSE k \in S : \A j \in S : j <= k

\* for each symbol some well-formed line binds, the instruction of the last
\* such line
LastBinding(lines) ==
    [c \in {BoundSymbol(lines[k]) : k \in {j \in 1..Len(lines) : WellFormed(lines[j])}}
        |-> BoundInstruction(lines[Highest(Binding(lines, c))])]

\* C19: Instructions::parse maps each symbol to the instruction of the last
\* well-formed line that binds it and maps nothing else; the malformed lines
\* contribute nothing: the text without them parses to the same mapping.
C19_LastWellFormedLineWins ==
    ipc = "parsed" =>
        /\ iset = LastBinding(Lines(instrText))
        /\ iset = InstructionsParseLines(
                      SelectSeq(Lines(instrText), WellFormed), InstructionsNew)

\* two well-formed lines bind F, a line with an unknown command word
\* follows them, and F is bound to the instruction of the second line
C19_Witness ==
    /\ ipc = "parsed"
    /\ instrText = chF \o chSpace \o chEq \o chSpace \o kwForward \o chSpace
                   \o txt10 \o chNewline
                   \o chF \o chSpace \o chEq \o chSpace \o kwTurn \o chSpace
                   \o txt90 \o chNewline
                   \o chF \o chSpace \o chEq \o chSpace \o kwJump
    /\ DOMAIN iset = {chF}
    /\ iset[chF] = Turn(90)

-----------------------------------------------------------------------------
(* Data (src/src/main.rs) *)

chPlus == <<43>>
Digit(d) == <<48 + d>>

INITIAL_AXIOM == chA

\* "A -> F[-A]F[-A]+FA\nF -> FF"
INITIAL_RULES ==
    <<65, 32, 45, 62, 32, 70, 91, 45, 65, 93, 70, 91, 45, 65, 93, 43, 70, 65,
      10, 70, 32, 45, 62, 32, 70, 70>>

\* instructions.txt: "F = forward 10\n[ = push\n] = pop\n"
INITIAL_INSTRUCTIONS ==
    chF \o chSpace \o chEq \o chSpace \o kwForward \o chSpace \o txt10
    \o chNewline \o chOpen \o chSpace \o chEq \o chSpace \o kwPush
    \o chNewline \o chClose \o chSpace \o chEq \o chSpace \o kwPop
    \o chNewline

\* String::pop: the string without its last character
RECURSIVE StringPop(_)
StringPop(s) ==
    IF s = <<>> THEN s
    ELSE IF s[Len(s)] >= 128 /\ s[Len(s)] < 192
         THEN StringPop(SubSeq(s, 1, Len(s) - 1))
    ELSE SubSeq(s, 1, Len(s) - 1)

\* str::parse::<usize>, for texts whose value is far below usize::MAX
ParseUsize(text) ==
    IF text = <<>> THEN None
    ELSE IF Len(text) = 1 /\ text[1] \in {43, 45} THEN None
    ELSE LET digits == IF text[1] = 43 THEN Tail(text) ELSE text IN
         IF \A j \in 1..Len(digits) : IsDigit(digits[j])
         THEN Some(DecimalValue(digits, 0)) ELSE None

\* Data::iterations
DataIterations(text) ==
    IF ParseUsize(text).some THEN ParseUsize(text).val ELSE 0

\* Data::rules
DataRules(text) == RulesParse(text)

\* mutant: the range of the loop is inclusive
InRange_Inclusive(idx, end) == idx <= end

\* `for _ in 0..self.iterations()`: the loop takes another turn
InRange(idx, end) == idx < end

\* lines 66-76: every vertex position scaled and moved into the display
\* rectangle, kept symbolic
Fit(m) ==
    [vertices |-> [j \in 1..Len(m.vertices) |-> [fit |-> m.vertices[j]]],
     indices |-> m.indices]

\* Data::new, before its call of generate_mesh
NewData ==
    [mesh |-> None,
     axiom |-> INITIAL_AXIOM,
     rules |-> INITIAL_RULES,
     instructions |-> StringPop(INITIAL_INSTRUCTIONS),
     iterations |-> Digit(MaxIterations)]

\* the texts typed into the four inputs
AxiomTexts == {<<>>, chA, chF \o chOpen \o chF \o chClose}
DataRulesTexts ==
    {<<>>, INITIAL_RULES,
     chA \o chSpace \o Arrow \o chSpace \o chF \o chOpen \o chA \o chClose,
     chA \o Arrow \o chF \o chOpen \o chA \o chClose,
     chSpace \o Arrow \o chSpace \o chF}
DataInstrTexts ==
    {<<>>, StringPop(INITIAL_INSTRUCTIONS),
     chF \o chSpace \o chEq \o chSpace \o kwForward \o chSpace \o txt10,
     chOpen \o chSpace \o chEq \o chSpace \o kwForward \o chSpace \o txt10
        \o chNewline \o chF \o chSpace \o chEq \o chSpace \o kwTurn
        \o chSpace \o txt90}
IterTexts ==
    {Digit(d) : d \in 0..MaxIterations}
    \cup {<<>>, chX, chPlus \o Digit(1), chDash \o Digit(1), Digit(1) \o chX}

InitData ==
    /\ data = NewData
    /\ tree = <<>> /\ iterEnd = 0 /\ iterIdx = 0 /\ handed = <<>>
    /\ dpc = "gen"
    /\ lastHandler = [changed |-> TRUE, regenerated |-> TRUE]
    /\ build \in {"debug", "release"}
    /\ RulesRest /\ ParseIdle /\ MeshIdle /\ InstrIdle

DataFrame ==
    /\ UNCHANGED <<rulesVars, parseVars, meshVars, instrVars>>

\* a handler that calls self.generate_mesh() when regenerate holds
Handler(newData, regenerate) ==
    /\ dpc = "idle"
    /\ data' = newData
    /\ dpc' = IF regenerate THEN "gen" ELSE "idle"
    /\ lastHandler' = [changed |-> newData # data, regenerated |-> regenerate]
    /\ UNCHANGED <<tree, iterEnd, iterIdx, handed>>
    /\ DataFrame

\* Data::set_axiom
SetAxiom(text) ==
    Handler(IF data.axiom # text THEN [data EXCEPT !.axiom = text] ELSE data,
            data.axiom # text)

\* mutant: prev is read after the new text is stored
SetRules_PrevAfter(text) ==
    Handler([data EXCEPT !.rules = text], DataRules(text) # DataRules(text))

\* Data::set_rules
SetRules(text) ==
    Handler([data EXCEPT !.rules = text],
            DataRules(data.rules) # DataRules(text))

\* Data::set_instructions
SetInstructions(text) ==
    Handler([data EXCEPT !.instructions = text],
            DataInstructions(data.instructions) # DataInstructions(text))

\* Data::set_iterations
SetIterations(text) ==
    Handler([data EXCEPT !.iterations = text],
            DataIterations(data.iterations) # DataIterations(text))

\* the Regenerate button, lines 155-158
Regenerate == Handler(data, TRUE)

\* the Restart button, lines 164-167
Restart == Handler(NewData, TRUE)

\* Data::generate_mesh, lines 54-60: the range of the loop is evaluated
GenStart ==
    /\ dpc = "gen"
    /\ tree' = data.axiom
    /\ iterEnd' = DataIterations(data.iterations)
    /\ iterIdx' = 0
    /\ dpc' = "expand"
    /\ UNCHANGED <<data, handed, lastHandler>>
    /\ DataFrame

\* lines 60-62: one turn of the loop
GenExpand ==
    /\ dpc = "expand" /\ InRange(iterIdx, iterEnd)
    /\ LET r == RulesApply(DataRules(data.rules), tree, build) IN
       IF r.panicked
       THEN dpc' = "panicked" /\ UNCHANGED <<tree, iterIdx>>
       ELSE tree' = r.output /\ iterIdx' = iterIdx + 1 /\ UNCHANGED dpc
    /\ UNCHANGED <<data, iterEnd, handed, lastHandler>>
    /\ DataFrame

\* line 64: the tree is handed to Instructions::apply
GenMap ==
    /\ dpc = "expand" /\ ~InRange(iterIdx, iterEnd)
    /\ handed' = tree
    /\ dpc' = "built"
    /\ UNCHANGED <<data, tree, iterEnd, iterIdx, lastHandler>>
    /\ DataFrame

\* lines 64-78: the mesh is built, fitted and stored
GenStore ==
    /\ dpc = "built"
    /\ data' = [data EXCEPT !.mesh =
          Some(Fit(GenerateMesh(
              InstructionsApply(DataInstructions(data.instructions), handed))))]
    /\ dpc' = "idle"
    /\ UNCHANGED <<tree, iterEnd, iterIdx, handed, lastHandler>>
    /\ DataFrame

NextData ==
    \/ \E text \in AxiomTexts : SetAxiom(text)
    \/ \E text \in DataRulesTexts : SetRules(text)
    \/ \E text \in DataInstrTexts : SetInstructions(text)
    \/ \E text \in IterTexts : SetIterations(text)
    \/ Regenerate
    \/ Restart
    \/ GenStart
    \/ GenExpand
    \/ GenMap
    \/ GenStore

SpecData == InitData /\ [][NextData]_vars

\* Rules::apply applied count times
RECURSIVE ApplyTimes(_, _, _)
ApplyTimes(rs, count, s) ==
    IF count = 0 THEN s
    ELSE ApplyTimes(rs, count - 1, RulesApply(rs, s, build).output)

\* the iterations text read as a non-negative integer, 0 when it is none
IterationCount ==
    LET text == data.iterations
        digits == IF text # <<>> /\ text[1] = 43 THEN Tail(text) ELSE text
    IN IF digits # <<>> /\ \A j \in 1..Len(digits) : digits[j] \in 48..57
       THEN DecimalValue(digits, 0) ELSE 0

\* C10: the string handed to Instructions::apply is Rules::apply applied N
\* times to the axiom, N being the iterations text as a non-negative
\* integer and 0 when it does not parse; with N = 0 it is the axiom.
C10_HandedIsNthExpansion ==
    dpc = "built" =>
        /\ handed = ApplyTimes(RulesParse(data.rules), IterationCount, data.axiom)
        /\ IterationCount = 0 => handed = data.axiom

\* two expansions of the axiom "A" under the initial rules
C10_Witness ==
    /\ dpc = "built"
    /\ IterationCount = 2
    /\ data.axiom = chA
    /\ data.rules = INITIAL_RULES
    /\ handed # data.axiom
    /\ handed # RulesApply(RulesParse(data.rules), data.axiom, build).output
    /\ Len(handed) = 52

\* the mesh Data::generate_mesh builds from the four texts of d
MeshOf(d) ==
    Fit(GenerateMesh(
        InstructionsApply(
            DataInstructions(d.instructions),
            ApplyTimes(DataRules(d.rules), DataIterations(d.iterations),
                       d.axiom))))

\* C13: whenever Data is at rest (after Data::new and after every handler
\* has returned), the stored mesh is the mesh Data::generate_mesh would
\* build from the current axiom, rules, instructions and iterations texts,
\* also after a setter that stored a new text and did not regenerate.
C13_MeshNeverStale ==
    dpc = "idle" => data.mesh = Some(MeshOf(data))

\* a setter has stored a rules text that differs from the one before and
\* parses to the same rules, and has not regenerated; the mesh has segments
C13_Witness ==
    /\ dpc = "idle"
    /\ lastHandler = [changed |-> TRUE, regenerated |-> FALSE]
    /\ data.rules = chA \o Arrow \o chF \o chOpen \o chA \o chClose
    /\ data.axiom = chA
    /\ DataIterations(data.iterations) = 2
    /\ data.mesh = Some(MeshOf(data))
    /\ Len(data.mesh.val.vertices) = 6

====
